---- MODULE Spec2Model ----
(***************************************************************************)
(* Path-addressed JSON mutation of the graph editor: the detail editor     *)
(* (NodeModal) and the inline node editor (TextNode).                      *)
(*                                                                         *)
(* Strings are sequences of one-character strings, so that trim(),         *)
(* Number() and String() are computed character by character.  A JSON      *)
(* value is a tagged record: null, bool, num (m * 10^e, normalised), inf   *)
(* (the non-finite numbers Number() can return), str, arr, obj (keys in    *)
(* insertion order) and undef (JavaScript's undefined).                    *)
(***************************************************************************)
EXTENDS Integers, Sequences, FiniteSets, TLC

(* ------------------------------------------------------------------ *)
(* Characters and strings                                              *)
(* ------------------------------------------------------------------ *)
Digits == <<"0", "1", "2", "3", "4", "5", "6", "7", "8", "9">>

IsDigit(c) == \E i \in 1..Len(Digits) : Digits[i] = c

DigitVal(c) == (CHOOSE i \in 1..Len(Digits) : Digits[i] = c) - 1

HexLower == <<"a", "b", "c", "d", "e", "f">>

HexUpper == <<"A", "B", "C", "D", "E", "F">>

IsHexDigit(c) ==
    \/ IsDigit(c)
    \/ \E i \in 1..Len(HexLower) : HexLower[i] = c \/ HexUpper[i] = c

HexVal(c) ==
    IF IsDigit(c) THEN DigitVal(c)
    ELSE 9 + (CHOOSE i \in 1..Len(HexLower) : HexLower[i] = c \/ HexUpper[i] = c)

IsSpace(c) == c \in {" ", "\t"}

AllDigits(s) == \A i \in 1..Len(s) : IsDigit(s[i])

AllRadixDigits(s, radix) ==
    \A i \in 1..Len(s) : IsHexDigit(s[i]) /\ HexVal(s[i]) < radix

RECURSIVE TrimStart(_)
TrimStart(s) ==
    IF s # <<>> /\ IsSpace(Head(s)) THEN TrimStart(Tail(s)) ELSE s

RECURSIVE TrimEnd(_)
TrimEnd(s) ==
    IF s # <<>> /\ IsSpace(s[Len(s)]) THEN TrimEnd(SubSeq(s, 1, Len(s) - 1)) ELSE s

\* String.prototype.trim
Trim(s) == TrimEnd(TrimStart(s))

RECURSIVE Zeros(_)
Zeros(n) == IF n <= 0 THEN <<>> ELSE <<"0">> \o Zeros(n - 1)

RECURSIVE NatToStr(_)
NatToStr(n) ==
    IF n < 10 THEN <<Digits[n + 1]>>
    ELSE NatToStr(n \div 10) \o <<Digits[(n % 10) + 1]>>

RECURSIVE DigitsToNat(_)
DigitsToNat(s) ==
    IF s = <<>> THEN 0
    ELSE 10 * DigitsToNat(SubSeq(s, 1, Len(s) - 1)) + DigitVal(s[Len(s)])

RECURSIVE RadixToNat(_, _)
RadixToNat(s, radix) ==
    IF s = <<>> THEN 0
    ELSE radix * RadixToNat(SubSeq(s, 1, Len(s) - 1), radix) + HexVal(s[Len(s)])

\* the first position of a character of set cs in s, 0 when there is none
FirstOf(s, cs) ==
    IF \E i \in 1..Len(s) : s[i] \in cs
    THEN CHOOSE i \in 1..Len(s) : s[i] \in cs /\ \A j \in 1..(i - 1) : s[j] \notin cs
    ELSE 0

(* ------------------------------------------------------------------ *)
(* JSON values                                                         *)
(* ------------------------------------------------------------------ *)
Null == [t |-> "null"]

Undefined == [t |-> "undef"]

NaN == [t |-> "nan"]

Bool(b) == [t |-> "bool", b |-> b]

Str(s) == [t |-> "str", s |-> s]

Inf(neg) == [t |-> "inf", neg |-> neg]

Arr(items) == [t |-> "arr", items |-> items]

Obj(keys, vals) == [t |-> "obj", keys |-> keys, vals |-> vals]

RECURSIVE Normalise(_, _)
Normalise(m, e) ==
    IF m = 0 THEN [t |-> "num", m |-> 0, e |-> 0]
    ELSE IF m % 10 = 0 THEN Normalise(m \div 10, e + 1)
    ELSE [t |-> "num", m |-> m, e |-> e]

\* the number m * 10^e
Num(m, e) == IF m < 0 THEN [Normalise(-m, e) EXCEPT !.m = -@] ELSE Normalise(m, e)

IntNum(n) == Num(n, 0)

(* ------------------------------------------------------------------ *)
(* Number(string) and String(value)                                    *)
(* ------------------------------------------------------------------ *)
Infinity == <<"I", "n", "f", "i", "n", "i", "t", "y">>

\* an unsigned decimal literal: digits [. digits] [e [sign] digits], or NaN
DecimalLiteral(s) ==
    LET ePos == FirstOf(s, {"e", "E"})
        mant == IF ePos = 0 THEN s ELSE SubSeq(s, 1, ePos - 1)
        expo == IF ePos = 0 THEN <<>> ELSE SubSeq(s, ePos + 1, Len(s))
        eNeg == expo # <<>> /\ Head(expo) = "-"
        eDig == IF expo # <<>> /\ Head(expo) \in {"+", "-"} THEN Tail(expo) ELSE expo
        dot == FirstOf(mant, {"."})
        ip == IF dot = 0 THEN mant ELSE SubSeq(mant, 1, dot - 1)
        fp == IF dot = 0 THEN <<>> ELSE SubSeq(mant, dot + 1, Len(mant))
        ev == IF eNeg THEN 0 - DigitsToNat(eDig) ELSE DigitsToNat(eDig)
    IN  IF /\ AllDigits(ip) /\ AllDigits(fp)
           /\ Len(ip) + Len(fp) > 0
           /\ (ePos # 0 => eDig # <<>> /\ AllDigits(eDig))
        THEN Num(DigitsToNat(ip \o fp), ev - Len(fp))
        ELSE NaN

\* Number(s) for a string s: the StringToNumber conversion
ToNumber(raw) ==
    LET s == Trim(raw)
        signed == s # <<>> /\ Head(s) \in {"+", "-"}
        neg == s # <<>> /\ Head(s) = "-"
        body == IF signed THEN Tail(s) ELSE s
        radix == IF Len(s) >= 3 /\ s[1] = "0"
                 THEN (IF s[2] \in {"x", "X"} THEN 16
                       ELSE IF s[2] \in {"o", "O"} THEN 8
                       ELSE IF s[2] \in {"b", "B"} THEN 2 ELSE 0)
                 ELSE 0
        rest == SubSeq(s, 3, Len(s))
        dec == DecimalLiteral(body)
    IN  IF s = <<>> THEN IntNum(0)
        ELSE IF radix # 0
        THEN (IF AllRadixDigits(rest, radix)
              THEN IntNum(RadixToNat(rest, radix)) ELSE NaN)
        ELSE IF body = Infinity THEN Inf(neg)
        ELSE IF dec = NaN THEN NaN
        ELSE IF neg THEN Num(0 - dec.m, dec.e) ELSE dec

\* Number.prototype.toString of the finite number m * 10^e
NumToStr(v) ==
    LET am == IF v.m < 0 THEN 0 - v.m ELSE v.m
        ds == NatToStr(am)
        k == Len(ds)
        n == k + v.e
        sign == IF v.m < 0 THEN <<"-">> ELSE <<>>
        x == n - 1
        xs == IF x < 0 THEN <<"-">> \o NatToStr(0 - x) ELSE <<"+">> \o NatToStr(x)
    IN  IF v.m = 0 THEN <<"0">>
        ELSE IF k <= n /\ n <= 21 THEN sign \o ds \o Zeros(n - k)
        ELSE IF 0 < n /\ n <= 21
        THEN sign \o SubSeq(ds, 1, n) \o <<".">> \o SubSeq(ds, n + 1, k)
        ELSE IF -6 < n /\ n <= 0 THEN sign \o <<"0", ".">> \o Zeros(0 - n) \o ds
        ELSE IF k = 1 THEN sign \o ds \o <<"e">> \o xs
        ELSE sign \o <<ds[1], ".">> \o SubSeq(ds, 2, k) \o <<"e">> \o xs

\* String(v) of a scalar (containers never reach it: a node's value is a scalar)
ToStr(v) ==
    CASE v.t = "null" -> <<"n", "u", "l", "l">>
      [] v.t = "undef" -> <<"u", "n", "d", "e", "f", "i", "n", "e", "d">>
      [] v.t = "bool" -> IF v.b THEN <<"t", "r", "u", "e">> ELSE <<"f", "a", "l", "s", "e">>
      [] v.t = "num" -> NumToStr(v)
      [] v.t = "inf" -> IF v.neg THEN <<"-">> \o Infinity ELSE Infinity
      [] v.t = "nan" -> <<"N", "a", "N">>
      [] v.t = "str" -> v.s
      [] OTHER -> <<"[", "o", "b", "j", "e", "c", "t", "]">>

(* ------------------------------------------------------------------ *)
(* parseDraftValue: the two copies                                     *)
(* ------------------------------------------------------------------ *)
\* NodeModal/index.tsx parseDraftValue
parseDraftValue(raw) ==
    LET trimmed == Trim(raw)
    IN  IF trimmed = <<"n", "u", "l", "l">> THEN Null
        ELSE IF trimmed = <<"t", "r", "u", "e">> THEN Bool(TRUE)
        ELSE IF trimmed = <<"f", "a", "l", "s", "e">> THEN Bool(FALSE)
        ELSE IF trimmed # <<>> /\ ToNumber(trimmed) # NaN THEN ToNumber(trimmed)
        ELSE Str(raw)

\* TextNode.tsx parseDraftValue
parseDraftValueInline(raw) ==
    LET trimmed == Trim(raw)
    IN  IF trimmed = <<"n", "u", "l", "l">> THEN Null
        ELSE IF trimmed = <<"t", "r", "u", "e">> THEN Bool(TRUE)
        ELSE IF trimmed = <<"f", "a", "l", "s", "e">> THEN Bool(FALSE)
        ELSE IF trimmed # <<>> /\ ToNumber(trimmed) # NaN THEN ToNumber(trimmed)
        ELSE Str(raw)

(* ------------------------------------------------------------------ *)
(* Property access on a parsed document                                *)
(* ------------------------------------------------------------------ *)
\* a path segment: an object key or an array index
K(s) == [isNum |-> FALSE, s |-> s, i |-> 0]

N(i) == [isNum |-> TRUE, s |-> "", i |-> i]

\* the outcome of an expression that throws a TypeError
Throw == [t |-> "throw"]

\* ToPropertyKey of a segment (indices below ten)
ToKey(seg) == IF seg.isNum THEN Digits[seg.i + 1] ELSE seg.s

IsIndexKey(k) == \E i \in 1..Len(Digits) : Digits[i] = k

IndexOfKey(keys, k) ==
    IF \E i \in 1..Len(keys) : keys[i] = k
    THEN CHOOSE i \in 1..Len(keys) : keys[i] = k
    ELSE 0

\* where a new own property k goes in an ordinary object's key order: integer
\* keys first, ascending, then the others in insertion order
InsertAt(keys, k) ==
    IF IsIndexKey(k)
    THEN 1 + Cardinality({i \in 1..Len(keys) :
                            IsIndexKey(keys[i]) /\ DigitVal(keys[i]) < DigitVal(k)})
    ELSE Len(keys) + 1

InsertSeq(s, pos, x) == SubSeq(s, 1, pos - 1) \o <<x>> \o SubSeq(s, pos, Len(s))

\* obj[k] = x on an ordered key/value map
MapPut(map, k, x) ==
    LET at == IndexOfKey(map.keys, k)
        pos == InsertAt(map.keys, k)
    IN  IF at # 0 THEN [map EXCEPT !.vals[at] = x]
        ELSE [map EXCEPT !.keys = InsertSeq(map.keys, pos, k),
                         !.vals = InsertSeq(map.vals, pos, x)]

\* v[seg]: the value read, Undefined when there is none, Throw on null/undefined
GetProp(v, seg) ==
    CASE v.t \in {"null", "undef"} -> Throw
      [] v.t = "obj" ->
            LET at == IndexOfKey(v.keys, ToKey(seg))
            IN  IF at = 0 THEN Undefined ELSE v.vals[at]
      [] v.t = "arr" ->
            IF seg.isNum /\ seg.i < Len(v.items) THEN v.items[seg.i + 1] ELSE Undefined
      [] v.t = "str" ->
            IF seg.isNum /\ seg.i < Len(v.s) THEN Str(<<v.s[seg.i + 1]>>) ELSE Undefined
      [] OTHER -> Undefined

\* v[seg] = x in strict mode: the container after the write, Throw on null,
\* undefined and primitives.  A string key on an array sets a property that
\* JSON.stringify does not print, an index past the end leaves holes.
SetProp(v, seg, x) ==
    CASE v.t = "obj" -> MapPut(v, ToKey(seg), x)
      [] v.t = "arr" ->
            IF ~seg.isNum THEN v
            ELSE IF seg.i < Len(v.items) THEN [v EXCEPT !.items[seg.i + 1] = x]
            ELSE Arr(v.items \o [j \in 1..(seg.i - Len(v.items)) |-> Undefined] \o <<x>>)
      [] OTHER -> Throw

\* the value at path p of root (every segment dereferenced), Undefined or Throw
RECURSIVE GetAt(_, _)
GetAt(root, p) ==
    IF p = <<>> THEN root
    ELSE LET v == GetProp(root, Head(p))
         IN  IF v = Throw \/ v = Undefined THEN v ELSE GetAt(v, Tail(p))

\* root with the value at path p replaced by x: the effect, seen from root, of
\* mutating in place the container that p reaches
RECURSIVE SetAt(_, _, _)
SetAt(root, p, x) ==
    IF p = <<>> THEN x
    ELSE SetProp(root, Head(p), SetAt(GetProp(root, Head(p)), Tail(p), x))

(* ------------------------------------------------------------------ *)
(* Document text: JSON.stringify and JSON.parse                        *)
(* ------------------------------------------------------------------ *)
\* A text is held as what JSON.parse makes of it: a text that parses (with the
\* value it parses to, and whether it is the 2-space canonical form of that
\* value), the empty text, or a text that does not parse.
BadText == [kind |-> "bad"]

EmptyText == [kind |-> "empty"]

JsonText(v, canon) == [kind |-> "json", val |-> v, canon |-> canon]

\* what JSON.stringify prints of a value: non-finite numbers and array holes as
\* null, properties whose value is undefined left out
RECURSIVE Sanitize(_)
Sanitize(v) ==
    CASE v.t \in {"inf", "nan"} -> Null
      [] v.t = "arr" ->
            Arr([i \in 1..Len(v.items) |->
                    IF v.items[i].t = "undef" THEN Null ELSE Sanitize(v.items[i])])
      [] v.t = "obj" ->
            LET keep == {i \in 1..Len(v.keys) : v.vals[i].t # "undef"}
                nth(j) == CHOOSE i \in keep : Cardinality({h \in keep : h < i}) = j - 1
            IN  Obj([j \in 1..Cardinality(keep) |-> v.keys[nth(j)]],
                    [j \in 1..Cardinality(keep) |-> Sanitize(v.vals[nth(j)])])
      [] OTHER -> v

\* JSON.stringify(root, null, 2)
Stringify(root) == JsonText(Sanitize(root), TRUE)

\* currentJson ? JSON.parse(currentJson) : {}
\* a parse that reads a text that is not JSON as the empty object
ParseOrEmptyLenient(text) ==
    CASE text.kind = "json" -> text.val
      [] OTHER -> Obj(<<>>, <<>>)

ParseOrEmpty(text) ==
    CASE text.kind = "empty" -> Obj(<<>>, <<>>)
      [] text.kind = "bad" -> Throw
      [] OTHER -> text.val

(* ------------------------------------------------------------------ *)
(* Node rows and the field projection                                  *)
(* ------------------------------------------------------------------ *)
TypeOf(v) ==
    CASE v.t = "str" -> "string"
      [] v.t = "num" -> "number"
      [] v.t = "bool" -> "boolean"
      [] v.t = "null" -> "null"
      [] v.t = "arr" -> "array"
      [] OTHER -> "object"

IsContainer(v) == v.t \in {"arr", "obj"}

Row(hasKey, key, value) ==
    [hasKey |-> hasKey, key |-> key,
     value |-> IF IsContainer(value) THEN Undefined ELSE value,
     type |-> TypeOf(value)]

\* the rows of the graph node of value v: one keyed row per property of an
\* object, one unkeyed row for a scalar, none for an array (its elements are
\* nodes of their own)
NodeRows(v) ==
    CASE v.t = "obj" -> [i \in 1..Len(v.keys) |-> Row(TRUE, v.keys[i], v.vals[i])]
      [] v.t = "arr" -> <<>>
      [] OTHER -> <<Row(FALSE, "", v)>>

EmptyFields == [keys |-> <<>>, vals |-> <<>>]

\* stringOf of a row value in extractEditableFields and in the draft of TextNode
StringOrEmpty(v) == IF v.t \in {"null", "undef"} THEN <<>> ELSE ToStr(v)

RECURSIVE extractFrom(_, _)
extractFrom(nodeRows, fields) ==
    IF nodeRows = <<>> THEN fields
    ELSE LET row == Head(nodeRows)
         IN  extractFrom(Tail(nodeRows),
                IF row.type # "array" /\ row.type # "object" /\ row.hasKey /\ row.key # ""
                THEN MapPut(fields, row.key, StringOrEmpty(row.value))
                ELSE fields)

extractEditableFields(nodeRows) == extractFrom(nodeRows, EmptyFields)

(* ------------------------------------------------------------------ *)
(* NodeModal.handleSave                                                *)
(* ------------------------------------------------------------------ *)
NoNode == [present |-> FALSE]

NodeData(path, text) == [present |-> TRUE, path |-> path, text |-> text]

Published(text) == [kind |-> "publish", text |-> text]

Outcome(kind) == [kind |-> kind]

\* the loop over segments 0..len-2 of NodeModal.handleSave: parent = parent[path[i]],
\* and the early return when that is undefined
RECURSIVE WalkParent(_, _), WalkParentNext(_, _)
WalkParent(parent, segs) ==
    IF segs = <<>> THEN [st |-> "ok", v |-> parent]
    ELSE WalkParentNext(GetProp(parent, Head(segs)), Tail(segs))

WalkParentNext(next, rest) ==
    IF next = Throw THEN [st |-> "throw"]
    ELSE IF next = Undefined THEN [st |-> "invalid"]
    ELSE WalkParent(next, rest)

\* Object.entries(fields).forEach(([key, value]) => nodeTarget[key] = parseDraftValue(value))
RECURSIVE ApplyFields(_, _, _), ApplyFieldsNext(_, _, _)
ApplyFields(nodeTarget, keys, vals) ==
    IF keys = <<>> THEN nodeTarget
    ELSE ApplyFieldsNext(SetProp(nodeTarget, K(Head(keys)), parseDraftValue(Head(vals))),
                         Tail(keys), Tail(vals))

ApplyFieldsNext(next, keys, vals) ==
    IF next = Throw THEN Throw ELSE ApplyFields(next, keys, vals)

\* Object.values(fields)[0] ?? ""
FirstFieldValue(fields) == IF fields.vals = <<>> THEN <<>> ELSE fields.vals[1]

\* typeof v === "object" && !Array.isArray(v)
IsObjectNotArray(v) == v.t \in {"obj", "null"}

Prefix(path) == SubSeq(path, 1, Len(path) - 1)

LastKey(path) == path[Len(path)]

\* parent[lastKey] = parseDraftValue(firstFieldValue ?? ""), seen from root
ModalReplaceSlot(root, path, newParent) ==
    IF newParent = Throw THEN Throw ELSE SetAt(root, Prefix(path), newParent)

\* the branch on the shape of nodeTarget = parent[lastKey]
ModalAtTarget(root, path, fields, parent, nodeTarget) ==
    IF nodeTarget = Throw THEN Throw
    ELSE IF nodeTarget.t = "obj"
    THEN SetAt(root, path, ApplyFields(nodeTarget, fields.keys, fields.vals))
    ELSE ModalReplaceSlot(root, path,
            SetProp(parent, LastKey(path), parseDraftValue(FirstFieldValue(fields))))

\* after the loop: the early return, or the update at the parent it reached
ModalAtParent(root, path, fields, w) ==
    IF w.st = "throw" THEN Throw
    ELSE IF w.st = "invalid" THEN Outcome("invalidPath")
    ELSE ModalAtTarget(root, path, fields, w.v, GetProp(w.v, LastKey(path)))

\* the root after the body of the try block, or Throw, or the early return.  In the
\* root case a root that is no object is left as it is: the coerced value is
\* assigned to the local nodeTarget only.
ModalMutate(root, path, fields) ==
    IF path # <<>> THEN ModalAtParent(root, path, fields, WalkParent(root, Prefix(path)))
    ELSE IF IsObjectNotArray(root) THEN ApplyFields(root, fields.keys, fields.vals)
    ELSE root

ModalTry(root, path, fields) ==
    IF root = Throw THEN Throw ELSE ModalMutate(root, path, fields)

ModalCommit(after) ==
    IF after = Throw THEN Outcome("threw")
    ELSE IF after = Outcome("invalidPath") THEN after
    ELSE Published(Stringify(after))

\* NodeModal.handleSave: what the handler does to the stores
ModalSave(currentJson, nodeData, fields) ==
    IF ~nodeData.present THEN Outcome("noNode")
    ELSE ModalCommit(ModalTry(ParseOrEmpty(currentJson), nodeData.path, fields))

(* ------------------------------------------------------------------ *)
(* TextNode.handleSave                                                 *)
(* ------------------------------------------------------------------ *)
\* the loop over segments 0..len-2 of TextNode.handleSave: the early return when
\* target[key] is undefined, else target = target[key]
\* a walk that puts an empty object where a segment is missing
RECURSIVE WalkTargetCreating(_, _)
WalkTargetCreating(target, segs) ==
    IF segs = <<>> THEN [st |-> "ok", v |-> target]
    ELSE IF GetProp(target, Head(segs)) = Throw THEN [st |-> "throw"]
    ELSE IF GetProp(target, Head(segs)) = Undefined
    THEN WalkTargetCreating(Obj(<<>>, <<>>), Tail(segs))
    ELSE WalkTargetCreating(GetProp(target, Head(segs)), Tail(segs))

RECURSIVE WalkTarget(_, _), WalkTargetNext(_, _)
WalkTarget(target, segs) ==
    IF segs = <<>> THEN [st |-> "ok", v |-> target]
    ELSE WalkTargetNext(GetProp(target, Head(segs)), Tail(segs))

WalkTargetNext(next, rest) ==
    IF next = Throw THEN [st |-> "throw"]
    ELSE IF next = Undefined THEN [st |-> "invalid"]
    ELSE WalkTarget(next, rest)

\* target[lastKey] = parseDraftValue(draft), seen from the parsed root
InlineReplaceSlot(parsed, path, newTarget) ==
    IF newTarget = Throw THEN Throw ELSE SetAt(parsed, Prefix(path), newTarget)

InlineAtTarget(parsed, path, draft, w) ==
    IF w.st = "throw" THEN Throw
    ELSE IF w.st = "invalid" THEN Outcome("invalidPath")
    ELSE InlineReplaceSlot(parsed, path,
            SetProp(w.v, LastKey(path), parseDraftValueInline(draft)))

InlineMutate(parsed, path, draft) ==
    InlineAtTarget(parsed, path, draft, WalkTarget(parsed, Prefix(path)))

InlineTry(parsed, path, draft) ==
    IF parsed = Throw THEN Throw ELSE InlineMutate(parsed, path, draft)

InlineCommit(after) ==
    IF after = Throw THEN Outcome("threw")
    ELSE IF after = Outcome("invalidPath") THEN after
    ELSE Published(Stringify(after))

\* String(value ?? "")
StringOfValue(value) == IF value.t \in {"null", "undef"} THEN <<>> ELSE ToStr(value)

\* TextNode.handleSave: what the handler does to the document text store
InlineSave(currentJson, path, value, draft) ==
    IF StringOfValue(value) = draft THEN Outcome("unchanged")
    ELSE IF path = <<>> THEN Outcome("noPath")
    ELSE InlineCommit(InlineTry(ParseOrEmpty(currentJson), path, draft))

(* ------------------------------------------------------------------ *)
(* Sample documents, paths and drafts                                  *)
(* ------------------------------------------------------------------ *)
S42Padded == <<" ", "4", "2", " ">>

S007 == <<"0", "0", "7">>

SHello == <<" ", "h", "i", " ">>

\* {"user": {"age": 30, "zip": "007"}}
DocUser == Obj(<<"user">>, <<Obj(<<"age", "zip">>, <<IntNum(30), Str(S007)>>)>>)

\* [1, 42]
DocList == Arr(<<IntNum(1), IntNum(42)>>)

\* {"user": null}
DocNull == Obj(<<"user">>, <<Null>>)

\* 42
DocScalar == IntNum(42)

SampleDocs == {DocUser, DocList, DocNull, DocScalar}

\* the texts a load or paste can put in the stores
\* (the texts of DocList and DocNull are not in canonical form)
SampleTexts ==
    {JsonText(DocUser, TRUE), JsonText(DocList, FALSE), JsonText(DocNull, FALSE),
     JsonText(DocScalar, TRUE), BadText, EmptyText}

\* what the user can type into an input
Drafts == {S42Padded, SHello, Infinity}

\* the paths of the nodes of a document, to depth 2
PathsOf(doc) ==
    LET segs(v) == CASE v.t = "obj" -> {K(v.keys[i]) : i \in 1..Len(v.keys)}
                     [] v.t = "arr" -> {N(i - 1) : i \in 1..Len(v.items)}
                     [] OTHER -> {}
    IN  {<<>>} \cup {<<a>> : a \in segs(doc)}
        \cup UNION {{<<a, b>> : b \in segs(GetProp(doc, a))} : a \in segs(doc)}

ScalarPathsOf(doc) == {p \in PathsOf(doc) : ~IsContainer(GetAt(doc, p))}

\* a run is cut after this many loads, keystrokes and saves
MaxOps == 3

\* the lengths of the generated inputs of parseDraftValue
MaxRawLen == 4

(* ------------------------------------------------------------------ *)
(* State                                                               *)
(* ------------------------------------------------------------------ *)
VARIABLES
    json,          \* useJson: the document text store
    contents,      \* useFile: the raw content buffer
    selectedNode,  \* useGraph.selectedNode, nodeData of NodeModal
    isEditing,     \* NodeModal isEditing
    fields,        \* NodeModal fields
    node,          \* the node prop of the TextNode: path and text[0].value
    nodeEditing,   \* TextNode isEditing
    draft,         \* TextNode draft
    ops,           \* loads, keystrokes and saves so far
    last,          \* the last step, when it was a Save or a Cancel, and its outcome
    raw,           \* an input of parseDraftValue
    coerced        \* what the two copies of parseDraftValue made of raw, or what
                   \* the render of NodeModal made of nodeData

vars == <<json, contents, selectedNode, isEditing, fields, node, nodeEditing,
          draft, ops, last, raw, coerced>>

NotCoerced == [done |-> FALSE]

NoTextNode == [mounted |-> FALSE]

TextNodeOf(path, value) == [mounted |-> TRUE, path |-> path, value |-> value]

\* what is remembered of a step: of a Save its outcome, of a Cancel that it was one
Step(op, res) ==
    IF op \in {"ModalSave", "InlineSave", "ModalCancel", "InlineCancel", "Coerce"}
    THEN [op |-> op, res |-> res]
    ELSE [op |-> "other", res |-> "ok"]

\* what is remembered of a Save: its outcome, and which Save, if any, published in
\* the step before it
SaveStep(op, res, before) ==
    [op |-> op, res |-> res,
     after |-> IF before.op \in {"ModalSave", "InlineSave"} /\ before.res = "publish"
               THEN before.op ELSE "none"]

Init ==
    /\ json \in {t \in SampleTexts : t.kind = "json"}
    /\ contents = json
    /\ selectedNode = NoNode
    /\ isEditing = FALSE
    /\ fields = EmptyFields
    /\ node = NoTextNode
    /\ nodeEditing = FALSE
    /\ draft = <<>>
    /\ ops = 0
    /\ last = Step("Init", "env")
    /\ raw = <<>>
    /\ coerced = NotCoerced

Running == ops < MaxOps

(* ------------------------------------------------------------------ *)
(* The application around the two editors                              *)
(* ------------------------------------------------------------------ *)
\* the reset effect of NodeModal, run with the nodeData it is given
ResetFields(nodeData) ==
    IF nodeData.present THEN extractEditableFields(nodeData.text) ELSE EmptyFields

\* a sync effect without the test of isEditing
SyncDraftAlways(editing, value, current) == StringOrEmpty(value)

\* the draft sync effect of TextNode: the draft it leaves
SyncDraft(editing, value, current) ==
    IF ~editing THEN StringOrEmpty(value) ELSE current

\* a document is loaded or pasted: both stores take its text
LoadDocument ==
    /\ Running
    /\ \E t \in SampleTexts :
        /\ t # json
        /\ json' = t
        /\ contents' = t
    /\ ops' = ops + 1
    /\ last' = Step("LoadDocument", "env")
    /\ UNCHANGED <<selectedNode, isEditing, fields, node, nodeEditing, draft, raw, coerced>>

\* the selected node after a rebuild: the rows of its path in the new document
RefreshSelected(nodeData, at) ==
    IF at \in {Undefined, Throw} THEN NoNode ELSE NodeData(nodeData.path, NodeRows(at))

RebuildModal(sel) ==
    /\ selectedNode' = sel
    /\ fields' = ResetFields(sel)
    /\ isEditing' = FALSE

RebuildNode(nv) ==
    IF nv \in {Undefined, Throw} \/ IsContainer(nv)
    THEN /\ node' = NoTextNode
         /\ nodeEditing' = FALSE
         /\ draft' = <<>>
    ELSE /\ node' = TextNodeOf(node.path, nv)
         /\ nodeEditing' = nodeEditing
         /\ draft' = SyncDraft(nodeEditing, nv, draft)

\* the graph is rebuilt from the document text store: the selected node and the
\* text node get the rows of their path in the new document, and the effects
\* that depend on them run
Rebuild ==
    /\ Running
    /\ json.kind = "json"
    /\ RebuildModal(IF selectedNode.present
                    THEN RefreshSelected(selectedNode, GetAt(json.val, selectedNode.path))
                    ELSE NoNode)
    /\ RebuildNode(IF node.mounted THEN GetAt(json.val, node.path) ELSE Undefined)
    /\ last' = Step("Rebuild", "env")
    /\ UNCHANGED <<json, contents, ops, raw, coerced>>

\* a node of the graph is selected and the modal shows it: the reset effect runs
SelectNode ==
    /\ Running
    /\ json.kind = "json"
    /\ \E p \in PathsOf(json.val) :
        /\ ~(selectedNode.present /\ selectedNode.path = p)
        /\ selectedNode' = NodeData(p, NodeRows(GetAt(json.val, p)))
    /\ fields' = ResetFields(selectedNode')
    /\ isEditing' = FALSE
    /\ last' = Step("SelectNode", "env")
    /\ UNCHANGED <<json, contents, node, nodeEditing, draft, ops, raw, coerced>>

\* the modal is closed or opened: the reset effect runs
ModalOpenedChange ==
    /\ Running
    /\ isEditing \/ fields # ResetFields(selectedNode)
    /\ fields' = ResetFields(selectedNode)
    /\ isEditing' = FALSE
    /\ last' = Step("ModalOpenedChange", "env")
    /\ UNCHANGED <<json, contents, selectedNode, node, nodeEditing, draft, ops, raw, coerced>>

\* a text node of the graph is rendered for a scalar of the document
MountNode ==
    /\ Running
    /\ json.kind = "json"
    /\ \E p \in ScalarPathsOf(json.val) :
        /\ ~(node.mounted /\ node.path = p)
        /\ node' = TextNodeOf(p, GetAt(json.val, p))
    /\ nodeEditing' = FALSE
    /\ draft' = StringOrEmpty(node'.value)
    /\ last' = Step("MountNode", "env")
    /\ UNCHANGED <<json, contents, selectedNode, isEditing, fields, ops, raw, coerced>>

(* ------------------------------------------------------------------ *)
(* NodeModal                                                           *)
(* ------------------------------------------------------------------ *)
\* the Edit button: setIsEditing(true)
ModalEdit ==
    /\ Running
    /\ ~isEditing
    /\ isEditing' = TRUE
    /\ last' = Step("ModalEdit", "ok")
    /\ UNCHANGED <<json, contents, selectedNode, fields, node, nodeEditing, draft, ops, raw, coerced>>

\* onChange of a TextInput: setFields(prev => ({...prev, [key]: value}))
ModalChange ==
    /\ isEditing
    /\ Running
    /\ \E i \in 1..Len(fields.keys), d \in Drafts :
        /\ fields.vals[i] # d
        /\ fields' = MapPut(fields, fields.keys[i], d)
    /\ ops' = ops + 1
    /\ last' = Step("ModalChange", "ok")
    /\ UNCHANGED <<json, contents, selectedNode, isEditing, node, nodeEditing, draft, raw, coerced>>

\* the fields handleCancel leaves
CancelFields(nodeData, current) ==
    IF nodeData.present THEN extractEditableFields(nodeData.text) ELSE current

\* a Cancel that reverts by committing the restored fields
ModalCancelRecommitting ==
    /\ Running
    /\ isEditing
    /\ fields' = CancelFields(selectedNode, fields)
    /\ isEditing' = FALSE
    /\ last' = Step("ModalCancel", "ok")
    /\ IF ModalSave(json, selectedNode, CancelFields(selectedNode, fields)).kind = "publish"
       THEN /\ json' = ModalSave(json, selectedNode, CancelFields(selectedNode, fields)).text
            /\ contents' = json'
       ELSE UNCHANGED <<json, contents>>
    /\ UNCHANGED <<selectedNode, node, nodeEditing, draft, ops, raw, coerced>>

ModalCancel ==
    /\ Running
    /\ isEditing
    /\ fields' = CancelFields(selectedNode, fields)
    /\ isEditing' = FALSE
    /\ last' = Step("ModalCancel", "ok")
    /\ UNCHANGED <<json, contents, selectedNode, node, nodeEditing, draft, ops, raw, coerced>>

\* a handleSave whose early return on an invalid path forgets setIsEditing(false)
ModalEditingKeptOnInvalidPath(outcome) == outcome = "invalidPath"

\* isEditing after handleSave: setIsEditing(false) on each of its ways out
ModalEditingAfterSave(outcome) ==
    CASE outcome = "noNode" -> FALSE
      [] outcome = "invalidPath" -> FALSE
      [] outcome = "publish" -> FALSE
      [] outcome = "threw" -> FALSE

\* the stores and the state after handleSave with outcome out
ModalFinish(out) ==
    /\ IF out.kind = "publish"
       THEN json' = out.text /\ contents' = out.text
       ELSE UNCHANGED <<json, contents>>
    /\ isEditing' = ModalEditingAfterSave(out.kind)
    /\ last' = SaveStep("ModalSave", out.kind, last)

\* a handleSave that reads the text of the raw content buffer
ModalHandleSaveFromBuffer ==
    /\ Running
    /\ isEditing
    /\ ModalFinish(ModalSave(contents, selectedNode, fields))
    /\ ops' = ops + 1
    /\ UNCHANGED <<selectedNode, fields, node, nodeEditing, draft, raw, coerced>>

ModalHandleSave ==
    /\ Running
    /\ isEditing
    /\ ModalFinish(ModalSave(json, selectedNode, fields))
    /\ ops' = ops + 1
    /\ UNCHANGED <<selectedNode, fields, node, nodeEditing, draft, raw, coerced>>

(* ------------------------------------------------------------------ *)
(* TextNode                                                            *)
(* ------------------------------------------------------------------ *)
\* handleEditClick: setIsEditing(true)
InlineEdit ==
    /\ Running
    /\ node.mounted
    /\ ~nodeEditing
    /\ nodeEditing' = TRUE
    /\ last' = Step("InlineEdit", "ok")
    /\ UNCHANGED <<json, contents, selectedNode, isEditing, fields, node, draft, ops, raw, coerced>>

\* onChange of the input: setDraft(e.target.value)
InlineChange ==
    /\ node.mounted
    /\ nodeEditing
    /\ Running
    /\ \E d \in Drafts :
        /\ d # draft
        /\ draft' = d
    /\ ops' = ops + 1
    /\ last' = Step("InlineChange", "ok")
    /\ UNCHANGED <<json, contents, selectedNode, isEditing, fields, node, nodeEditing, raw, coerced>>

\* the draft handleCancel sets
CancelDraft(value) == StringOrEmpty(value)

\* handleCancel, then the sync effect as isEditing turned false
InlineCancel ==
    /\ Running
    /\ node.mounted
    /\ nodeEditing
    /\ nodeEditing' = FALSE
    /\ draft' = SyncDraft(FALSE, node.value, CancelDraft(node.value))
    /\ last' = Step("InlineCancel", "ok")
    /\ UNCHANGED <<json, contents, selectedNode, isEditing, fields, node, ops, raw, coerced>>

\* isEditing after handleSave: setIsEditing(false) on each of its ways out
InlineEditingAfterSave(outcome) ==
    CASE outcome = "unchanged" -> FALSE
      [] outcome = "noPath" -> FALSE
      [] outcome = "invalidPath" -> FALSE
      [] outcome = "publish" -> FALSE
      [] outcome = "threw" -> FALSE

\* the raw content buffer after a publishing handleSave of the text node
InlineContentsAfterSave(text, current) == current

\* the stores and the state after handleSave with outcome out, and after the
\* sync effect that runs as isEditing turned false
InlineFinish(out) ==
    /\ IF out.kind = "publish"
       THEN /\ json' = out.text
            /\ contents' = InlineContentsAfterSave(out.text, contents)
       ELSE UNCHANGED <<json, contents>>
    /\ nodeEditing' = InlineEditingAfterSave(out.kind)
    /\ draft' = SyncDraft(nodeEditing', node.value, draft)
    /\ last' = SaveStep("InlineSave", out.kind, last)

InlineHandleSave ==
    /\ Running
    /\ node.mounted
    /\ nodeEditing
    /\ InlineFinish(InlineSave(json, node.path, node.value, draft))
    /\ ops' = ops + 1
    /\ UNCHANGED <<selectedNode, isEditing, fields, node, raw, coerced>>

Next ==
    \/ LoadDocument
    \/ Rebuild
    \/ SelectNode
    \/ ModalOpenedChange
    \/ MountNode
    \/ ModalEdit
    \/ ModalChange
    \/ ModalCancel
    \/ ModalHandleSave
    \/ InlineEdit
    \/ InlineChange
    \/ InlineCancel
    \/ InlineHandleSave

Spec == Init /\ [][Next]_vars

(* ------------------------------------------------------------------ *)
(* parseDraftValue on its own                                          *)
(* ------------------------------------------------------------------ *)
RawAlphabet == {" ", "0", "1", ".", "e", "-"}

SampleRaws ==
    {<<"n", "u", "l", "l">>, <<" ", "n", "u", "l", "l">>, <<"N", "u", "l", "l">>,
     <<"t", "r", "u", "e">>, <<"t", "r", "u", "e", " ">>, <<"f", "a", "l", "s", "e">>,
     <<"4", "2">>, <<"3", ".", "1", "4", "e", "2">>, <<"+", "7">>, S007, S42Padded,
     SHello, <<"h", "i">>, <<"1", "a">>, Infinity, <<"-">> \o Infinity,
     <<"N", "a", "N">>}

RawInputs == SampleRaws \cup UNION {[1..n -> RawAlphabet] : n \in 0..MaxRawLen}

InitCoerce ==
    /\ json = EmptyText
    /\ contents = EmptyText
    /\ selectedNode = NoNode
    /\ isEditing = FALSE
    /\ fields = EmptyFields
    /\ node = NoTextNode
    /\ nodeEditing = FALSE
    /\ draft = <<>>
    /\ ops = 0
    /\ last = Step("Init", "env")
    /\ raw \in RawInputs
    /\ coerced = NotCoerced

\* both copies of parseDraftValue are applied to the input
Coerce ==
    /\ ~coerced.done
    /\ coerced' = [done |-> TRUE, modal |-> parseDraftValue(raw),
                   inline |-> parseDraftValueInline(raw)]
    /\ last' = Step("Coerce", "ok")
    /\ UNCHANGED <<json, contents, selectedNode, isEditing, fields, node, nodeEditing,
                   draft, ops, raw>>

NextCoerce == Coerce

SpecCoerce == InitCoerce /\ [][NextCoerce]_vars

(* ------------------------------------------------------------------ *)
(* The render of NodeModal: normalizeNodeData, the fields, jsonPathToString *)
(* ------------------------------------------------------------------ *)
\* the length of the generated paths and the number of rows of the generated nodes
MaxPathLen == 2

MaxRows == 2

\* a text that is not JSON text: the raw rendering of one value
RawText(s) == [kind |-> "raw", s |-> s]

\* the rows that normalizeNodeData and extractEditableFields keep: no container, a key
RECURSIVE KeptRows(_, _)
KeptRows(nodeRows, obj) ==
    IF nodeRows = <<>> THEN obj
    ELSE KeptRows(Tail(nodeRows),
            IF /\ Head(nodeRows).type # "array" /\ Head(nodeRows).type # "object"
               /\ Head(nodeRows).hasKey /\ Head(nodeRows).key # ""
            THEN MapPut(obj, Head(nodeRows).key, Head(nodeRows).value)
            ELSE obj)

\* normalizeNodeData: "{}" is the text JSON.stringify gives of the empty object
normalizeNodeData(nodeRows) ==
    IF nodeRows = <<>> THEN Stringify(Obj(<<>>, <<>>))
    ELSE IF Len(nodeRows) = 1 /\ (~nodeRows[1].hasKey \/ nodeRows[1].key = "")
    THEN RawText(ToStr(nodeRows[1].value))
    ELSE Stringify(KeptRows(nodeRows, Obj(<<>>, <<>>)))

\* a text as the sequence of its pieces: single characters, and keys as they are
Quote == "\""

\* segments.join("][")
RECURSIVE Join(_, _)
Join(pieces, sep) ==
    IF pieces = <<>> THEN <<>>
    ELSE IF Len(pieces) = 1 THEN pieces[1]
    ELSE pieces[1] \o sep \o Join(Tail(pieces), sep)

\* a path display that quotes every segment
jsonPathToStringAllQuoted(path) ==
    IF path = <<>> THEN <<"$">>
    ELSE <<"$", "[">>
         \o Join([i \in 1..Len(path) |->
                    IF path[i].isNum THEN <<Quote>> \o NatToStr(path[i].i) \o <<Quote>>
                    ELSE <<Quote, path[i].s, Quote>>],
                 <<"]", "[">>)
         \o <<"]">>

jsonPathToString(path) ==
    IF path = <<>> THEN <<"$">>
    ELSE <<"$", "[">>
         \o Join([i \in 1..Len(path) |->
                    IF path[i].isNum THEN NatToStr(path[i].i)
                    ELSE <<Quote, path[i].s, Quote>>],
                 <<"]", "[">>)
         \o <<"]">>

\* nodeData?.text ?? [] and nodeData?.path
TextOf(nodeData) == IF nodeData.present THEN nodeData.text ELSE <<>>

PathOf(nodeData) == IF nodeData.present THEN nodeData.path ELSE <<>>

\* the properties an object node is made of, and the values of the nodes
SampleProps ==
    {<<"age", IntNum(30)>>, <<"note", Null>>, <<"zip", Str(S007)>>,
     <<"tags", DocList>>, <<"user", DocNull>>}

InjectiveSeqs(S, n) ==
    UNION {{q \in [1..m -> S] : \A i, j \in 1..m : i # j => q[i] # q[j]} : m \in 0..n}

SampleNodeValues ==
    {IntNum(42), Str(<<"x">>), Null, Bool(TRUE), DocList}
    \cup {Obj([i \in 1..Len(q) |-> q[i][1]], [i \in 1..Len(q) |-> q[i][2]]) :
             q \in InjectiveSeqs(SampleProps, MaxRows)}

SampleSegments == {K("a"), K("user"), N(0), N(2), N(10)}

SamplePaths == UNION {[1..n -> SampleSegments] : n \in 0..MaxPathLen}

InitRender ==
    /\ json = EmptyText
    /\ contents = EmptyText
    /\ selectedNode \in {NoNode}
          \cup {NodeData(p, NodeRows(v)) : p \in SamplePaths, v \in SampleNodeValues}
    /\ isEditing = FALSE
    /\ fields = EmptyFields
    /\ node = NoTextNode
    /\ nodeEditing = FALSE
    /\ draft = <<>>
    /\ ops = 0
    /\ last = Step("Init", "env")
    /\ raw = <<>>
    /\ coerced = NotCoerced

\* one render of the modal with the reset effect: the content shown, the fields of
\* the form and the path shown
Render ==
    /\ ~coerced.done
    /\ coerced' = [done |-> TRUE,
                   display |-> normalizeNodeData(TextOf(selectedNode)),
                   path |-> jsonPathToString(PathOf(selectedNode))]
    /\ fields' = ResetFields(selectedNode)
    /\ last' = Step("Render", "ok")
    /\ UNCHANGED <<json, contents, selectedNode, isEditing, node, nodeEditing,
                   draft, ops, raw>>

NextRender == Render

SpecRender == InitRender /\ [][NextRender]_vars

(* ------------------------------------------------------------------ *)
(* Properties                                                          *)
(* ------------------------------------------------------------------ *)
IsPrimitive(v) == v.t \in {"num", "bool", "str"}

\* the document a Save reads, when the text parses (the empty text reads as {})
CurrentDoc == ParseOrEmpty(json)

\* one of segments 0..len-2 of path is missing in doc
MissingIntermediate(doc, path) ==
    \E n \in 1..(Len(path) - 1) : GetAt(doc, SubSeq(path, 1, n)) = Undefined

\* the walk along path hits null or a primitive where it needs a container
HitsNonContainer(doc, path) ==
    /\ path # <<>>
    /\ LET parent == GetAt(doc, Prefix(path))
       IN  parent = Throw \/ parent = Null \/ IsPrimitive(parent)

\* the field projection of the node at path in the current document
ProjectionNow(path) ==
    LET at == GetAt(json.val, path)
    IN  IF at \in {Undefined, Throw} THEN EmptyFields
        ELSE extractEditableFields(NodeRows(at))

\* C1: the document text store and the raw content buffer always hold the same
\* text: every Save that publishes to one publishes the same text to the other.
C1_StoresAgree == json = contents

\* C2: a detail-editor Save at a non-empty path that addresses a non-array object
\* publishes a document in which every field key of the addressed object holds
\* coerce(rawText), every other key of it keeps its value and its place, and
\* everything outside the addressed object is unchanged.
C2_Addressed ==
    /\ selectedNode.present
    /\ selectedNode.path # <<>>
    /\ json.kind = "json"
    /\ GetAt(json.val, selectedNode.path).t = "obj"

C2_Committed ==
    /\ json'.kind = "json"
    /\ LET old == GetAt(json.val, selectedNode.path)
           new == GetAt(json'.val, selectedNode.path)
       IN  /\ new.t = "obj"
           /\ \A i \in 1..Len(fields.keys) :
                GetProp(new, K(fields.keys[i])) = parseDraftValue(fields.vals[i])
           /\ \A j \in 1..Len(old.keys) :
                (\A i \in 1..Len(fields.keys) : fields.keys[i] # old.keys[j])
                    => GetProp(new, K(old.keys[j])) = old.vals[j]
           /\ \A j \in 1..Len(old.keys) : new.keys[j] = old.keys[j]
           /\ json'.val = SetAt(json.val, selectedNode.path, new)

C2_FieldMapCommit == [][(ModalHandleSave /\ C2_Addressed) => C2_Committed]_vars

\* C3: an inline Save at a non-empty path whose slot parent[lastKey] exists, with
\* a draft that differs from the value's string form, publishes the previous
\* document with exactly that slot replaced by coerce(draft): the siblings of
\* the slot, their order and everything outside the parent are unchanged.
C3_Addressed ==
    /\ node.path # <<>>
    /\ json.kind = "json"
    /\ draft # StringOfValue(node.value)
    /\ LET parent == GetAt(json.val, Prefix(node.path))
       IN  /\ IsContainer(parent)
           /\ GetProp(parent, LastKey(node.path)) # Undefined

C3_Replaced ==
    /\ json'.kind = "json"
    /\ LET old == GetAt(json.val, Prefix(node.path))
           new == GetAt(json'.val, Prefix(node.path))
           key == LastKey(node.path)
       IN  /\ new.t = old.t
           /\ GetProp(new, key) = parseDraftValueInline(draft)
           /\ old.t = "arr" =>
                /\ Len(new.items) = Len(old.items)
                /\ \A i \in 1..Len(old.items) : i # key.i + 1 => new.items[i] = old.items[i]
           /\ old.t = "obj" =>
                /\ new.keys = old.keys
                /\ \A i \in 1..Len(old.keys) :
                     old.keys[i] # ToKey(key) => new.vals[i] = old.vals[i]
           /\ json'.val = SetAt(json.val, Prefix(node.path), new)

C3_ScalarReplace == [][(InlineHandleSave /\ C3_Addressed) => C3_Replaced]_vars

\* C4: in both editors a Save whose path has a missing intermediate segment writes
\* neither store (so creates no container) and leaves the session Viewing.
C4_InvalidPathNoWrite ==
    [][/\ (ModalHandleSave /\ selectedNode.present /\ json.kind # "bad"
             /\ MissingIntermediate(CurrentDoc, selectedNode.path))
            => (UNCHANGED <<json, contents>> /\ ~isEditing')
       /\ (InlineHandleSave /\ json.kind # "bad"
             /\ MissingIntermediate(CurrentDoc, node.path))
            => (UNCHANGED <<json, contents>> /\ ~nodeEditing')]_vars

\* an inline Save has taken the early return on a missing intermediate segment
C4_Witness ==
    /\ last.op = "InlineSave" /\ last.res = "invalidPath"
    /\ json.kind # "bad"
    /\ MissingIntermediate(CurrentDoc, node.path)
    /\ ~nodeEditing

\* the serialisation prints the slot key of parent: any key of an object, an index
\* of an array (a string key set on an array is a property the text leaves out)
SlotPrinted(parent, key) == parent.t = "obj" \/ (parent.t = "arr" /\ key.isNum)

\* C5: a Save publishes all of its edit or nothing.  When the text does not parse or
\* the walk hits null or a primitive, both stores keep their contents and the
\* session is Viewing; a Save that writes a store writes the canonical text of a
\* document in which every coerced field (or the coerced scalar, where the parent
\* prints the slot) is in place.
C5_Failure(path) == json.kind = "bad" \/ HitsNonContainer(CurrentDoc, path)

C5_ModalAll ==
    /\ json'.kind = "json" /\ json'.canon
    /\ contents' = json'
    /\ LET path == selectedNode.path
           old == GetAt(CurrentDoc, path)
           new == GetAt(json'.val, path)
       IN  IF old.t = "obj"
           THEN \A i \in 1..Len(fields.keys) :
                    GetProp(new, K(fields.keys[i])) = Sanitize(parseDraftValue(fields.vals[i]))
           ELSE path # <<>> =>
                    IF SlotPrinted(GetAt(CurrentDoc, Prefix(path)), LastKey(path))
                    THEN new = Sanitize(parseDraftValue(FirstFieldValue(fields)))
                    ELSE json'.val = CurrentDoc

C5_InlineAll ==
    /\ json'.kind = "json" /\ json'.canon
    /\ IF SlotPrinted(GetAt(CurrentDoc, Prefix(node.path)), LastKey(node.path))
       THEN GetProp(GetAt(json'.val, Prefix(node.path)), LastKey(node.path))
              = Sanitize(parseDraftValueInline(draft))
       ELSE json'.val = CurrentDoc

C6_SessionMachine ==
    [][/\ ModalEdit => (~isEditing /\ isEditing')
       /\ (ModalHandleSave \/ ModalCancel) => (isEditing /\ ~isEditing')
       /\ InlineEdit => (~nodeEditing /\ nodeEditing')
       /\ (InlineHandleSave \/ InlineCancel) => (nodeEditing /\ ~nodeEditing')]_vars

\* a detail-editor Save has taken the early return of an invalid path
C6_Witness ==
    /\ last.op = "ModalSave" /\ last.res = "invalidPath"
    /\ ~isEditing

C8_OnlySaveWrites ==
    [][(\/ ModalEdit \/ ModalChange \/ ModalCancel \/ SelectNode \/ ModalOpenedChange
        \/ InlineEdit \/ InlineChange \/ InlineCancel)
         => UNCHANGED <<json, contents>>]_vars

\* a Cancel of the detail editor has acted on a selected node of a document that
\* is not in canonical form
C8_Witness ==
    /\ last.op = "ModalCancel"
    /\ selectedNode.present
    /\ json.kind = "json" /\ ~json.canon
    /\ contents = json

\* C9: committing the field map projected from an object node's current rows,
\* unchanged, publishes the canonical text of the document as it was.
C9_NoOpRoundTrip ==
    [][(/\ ModalHandleSave
        /\ selectedNode.present
        /\ json.kind = "json"
        /\ GetAt(json.val, selectedNode.path).t = "obj"
        /\ fields = ProjectionNow(selectedNode.path))
         => json' = JsonText(json.val, TRUE)]_vars

\* C10: coerce follows the stated precedence on the trimmed input (null, the
\* booleans, a non-empty string that is a number under the decimal/exponent rules,
\* else the untrimmed input verbatim), and the two copies agree.
StatedNumber(trimmed) ==
    LET signed == trimmed # <<>> /\ Head(trimmed) \in {"+", "-"}
        dec == DecimalLiteral(IF signed THEN Tail(trimmed) ELSE trimmed)
    IN  IF dec = NaN THEN NaN
        ELSE IF trimmed # <<>> /\ Head(trimmed) = "-" THEN Num(0 - dec.m, dec.e)
        ELSE dec

StatedCoerce(input) ==
    LET trimmed == Trim(input)
    IN  IF trimmed = <<"n", "u", "l", "l">> THEN Null
        ELSE IF trimmed = <<"t", "r", "u", "e">> THEN Bool(TRUE)
        ELSE IF trimmed = <<"f", "a", "l", "s", "e">> THEN Bool(FALSE)
        ELSE IF trimmed # <<>> /\ StatedNumber(trimmed) # NaN THEN StatedNumber(trimmed)
        ELSE Str(input)

C10_CoerceAsStated ==
    coerced.done => (coerced.modal = StatedCoerce(raw) /\ coerced.inline = coerced.modal)

\* a row that is no container
IsScalarRow(row) == row.type # "array" /\ row.type # "object"

\* C11: the fields correspond 1:1 to the rows that are no containers: a container
\* row gives no field, a keyed scalar row gives fields[key] = stringOf(value), and
\* a node of one unkeyed scalar row gives the one synthetic field "" holding the
\* value, which is displayed raw.
C11_FieldsOneToOne ==
    coerced.done =>
        LET rows == TextOf(selectedNode)
        IN  IF Len(rows) = 1 /\ ~rows[1].hasKey /\ IsScalarRow(rows[1])
            THEN /\ fields = [keys |-> <<"">>, vals |-> <<StringOrEmpty(rows[1].value)>>]
                 /\ coerced.display = RawText(ToStr(rows[1].value))
            ELSE /\ \A i \in 1..Len(rows) :
                      IF IsScalarRow(rows[i])
                      THEN \E j \in 1..Len(fields.keys) :
                              /\ fields.keys[j] = rows[i].key
                              /\ fields.vals[j] = StringOrEmpty(rows[i].value)
                      ELSE \A j \in 1..Len(fields.keys) : fields.keys[j] # rows[i].key
                 /\ \A j \in 1..Len(fields.keys) :
                      \E i \in 1..Len(rows) : IsScalarRow(rows[i]) /\ rows[i].key = fields.keys[j]
                 /\ Len(fields.keys) = Cardinality({i \in 1..Len(rows) : IsScalarRow(rows[i])})

\* the bracketed segments of a path, one after the other
RECURSIVE Bracketed(_)
Bracketed(path) ==
    IF path = <<>> THEN <<>>
    ELSE (IF Head(path).isNum
          THEN <<"[">> \o NatToStr(Head(path).i) \o <<"]">>
          ELSE <<"[", Quote, Head(path).s, Quote, "]">>)
         \o Bracketed(Tail(path))

\* C12: the empty or absent path is displayed as $, a path as $ followed by one
\* bracketed segment per element in order, strings in double quotes and numbers
\* bare: ["a", 2] is displayed as $["a"][2].
C12_PathDisplay ==
    coerced.done =>
        /\ coerced.path = <<"$">> \o Bracketed(PathOf(selectedNode))
        /\ PathOf(selectedNode) = <<>> => coerced.path = <<"$">>
        /\ PathOf(selectedNode) = <<K("a"), N(2)>>
             => coerced.path = <<"$", "[", Quote, "a", Quote, "]", "[", "2", "]">>

\* the path ["a", 2] has been displayed
C12_Witness ==
    /\ coerced.done
    /\ selectedNode.present
    /\ selectedNode.path = <<K("a"), N(2)>>
    /\ coerced.path = <<"$", "[", Quote, "a", Quote, "]", "[", "2", "]">>

\* C13: a Save at the empty path on a root that is a scalar or an array publishes
\* a document whose root is coerce(rawText): of the first field (or of the empty
\* string) in the detail editor, of the draft in the inline editor.
C13_RootReplaced ==
    [][/\ (/\ ModalHandleSave
           /\ selectedNode.present
           /\ selectedNode.path = <<>>
           /\ json.kind = "json"
           /\ json.val.t # "obj")
            => (json'.kind = "json"
                /\ json'.val = parseDraftValue(FirstFieldValue(fields)))
       /\ (/\ InlineHandleSave
           /\ node.path = <<>>
           /\ json.kind = "json"
           /\ json.val.t # "obj")
            => (json'.kind = "json"
                /\ json'.val = parseDraftValueInline(draft))]_vars

\* C14: an inline Save whose coerced draft has the string form of the current
\* value takes the short cut: no mutation, setJson is not called, and the session
\* is Viewing.
C14_NoOpShortCircuit ==
    [][(/\ InlineHandleSave
        /\ StringOfValue(parseDraftValueInline(draft)) = StringOfValue(node.value))
         => (/\ last'.res = "unchanged"
             /\ UNCHANGED <<json, contents>>
             /\ ~nodeEditing')]_vars

\* C15: a detail-editor Save without any user edit on a node that is no object (one
\* unkeyed scalar row, or an array) leaves the document value unchanged.
C15_SaveWithoutEdit ==
    [][(/\ ModalHandleSave
        /\ selectedNode.present
        /\ json.kind = "json"
        /\ GetAt(json.val, selectedNode.path) \notin {Undefined, Throw}
        /\ GetAt(json.val, selectedNode.path).t # "obj"
        /\ selectedNode.text = NodeRows(GetAt(json.val, selectedNode.path))
        /\ fields = ProjectionNow(selectedNode.path))
         => (json'.kind = "json" /\ json'.val = json.val)]_vars

\* p leads to the slot of q or to a container around it (a number and its digits
\* are the same key)
IsPrefix(p, q) == Len(p) <= Len(q) /\ \A i \in 1..Len(p) : ToKey(p[i]) = ToKey(q[i])

\* neither path leads into the other's slot
NonOverlap(p, q) == ~IsPrefix(p, q) /\ ~IsPrefix(q, p)

\* every slot of the document as it is now that path does not overlap keeps its
\* value in the published document
C16_Retained(path) ==
    \A q \in PathsOf(CurrentDoc) :
        NonOverlap(q, path) => GetAt(json'.val, q) = GetAt(CurrentDoc, q)

\* C16: a Save reads, modifies and writes the document as it is at Save time: what
\* it publishes differs from that document only at its own path, so when another
\* session has committed at a path that does not overlap while this one was
\* Editing, the published document holds both changes.
C16_ReadModifyWrite ==
    [][/\ (ModalHandleSave /\ last'.res = "publish")
            => /\ C16_Retained(selectedNode.path)
               /\ (/\ last.op = "InlineSave" /\ last.res = "publish"
                   /\ NonOverlap(selectedNode.path, node.path))
                    => /\ GetAt(json'.val, node.path) = GetAt(json.val, node.path)
                       /\ C5_ModalAll
       /\ (InlineHandleSave /\ last'.res = "publish")
            => /\ C16_Retained(node.path)
               /\ (/\ last.op = "ModalSave" /\ last.res = "publish"
                   /\ selectedNode.present
                   /\ NonOverlap(selectedNode.path, node.path))
                    => /\ GetAt(json'.val, selectedNode.path)
                            = GetAt(json.val, selectedNode.path)
                       /\ C5_InlineAll]_vars

\* the detail editor was Editing when the inline editor published a change of
\* another slot, and has then published its own: the document holds both
C16_Witness ==
    /\ last.op = "ModalSave" /\ last.res = "publish" /\ last.after = "InlineSave"
    /\ selectedNode.present /\ node.mounted
    /\ NonOverlap(selectedNode.path, node.path)
    /\ json.kind = "json"
    /\ GetAt(json.val, node.path) # node.value
    /\ GetAt(json.val, node.path) \in {Sanitize(parseDraftValueInline(d)) : d \in Drafts}
    /\ GetAt(json.val, selectedNode.path) = parseDraftValue(FirstFieldValue(fields))
    /\ selectedNode.text # NodeRows(GetAt(json.val, selectedNode.path))

\* C17: while the inline session stays Editing on its node, the draft changes only
\* by the user's input, whatever happens to the node's value; whenever the session
\* is Viewing after a step, the draft is the string form of the node's value, ""
\* for null and undefined.
C17_DraftSync ==
    [][/\ (nodeEditing /\ nodeEditing' /\ node'.mounted /\ node'.path = node.path)
            => (draft' = draft \/ InlineChange)
       /\ (node'.mounted /\ ~nodeEditing')
            => draft' = (IF node'.value = Null \/ node'.value = Undefined
                         THEN <<>> ELSE ToStr(node'.value))]_vars

\* the value of the node has been replaced from outside (by a Save of the detail
\* editor, then the rebuild) while the session was Editing: the draft still is the
\* text of the old value
C17_Witness ==
    /\ node.mounted /\ nodeEditing
    /\ json.kind = "json"
    /\ node.value = GetAt(json.val, node.path)
    /\ node.value = Str(<<>>)
    /\ draft # <<>>
    /\ draft \notin Drafts

====
